---- MODULE Spec2Model ----
(***************************************************************************)
(* ImgSmith: the conversion / favicon orchestration of src/src/utils.ts.   *)
(* One batch invocation over a list of files, its per-file asynchronous    *)
(* tasks, the filesystem they act on and the report they end in.           *)
(*                                                                         *)
(* JavaScript runs every synchronous stretch of code to completion, so an  *)
(* action is one such stretch: the part of an async function between two   *)
(* awaits.  The work behind an await (the codec's toBuffer, an fs/promises *)
(* call) is an action of its own taken at an arbitrary later moment.       *)
(***************************************************************************)
EXTENDS Integers, Sequences, FiniteSets, TLC

VARIABLES
    files,      \* the batch's input: a sequence of distinct paths
    op,         \* the runner handed to the batch and its options
    fs,         \* the filesystem: existing file path -> its bytes
    dirs,       \* the directories that exist
    phase,      \* "idle" | "mapping" | "waiting" | "rejected"
    launched,   \* number of files whose task files.map has started
    task,       \* per file index: the state of its task
    failures,   \* batch / handleBatch: const failures
    successes,  \* handleBatch: const successes
    reports,    \* what each finished batch showed to the user
    runs,       \* number of batch invocations started so far
    uri,        \* a command's first argument: the clicked resource, if any
    uris,       \* a command's second argument: the multi-selection, if any
    activeEditor,   \* the document of the active text editor, if any
    collected,  \* what collectSelection(uri, uris) returned, once called
    picked,     \* what pickSelectedResources(uri) returned, once called
    lastSelection,  \* let lastSelection: the module's variable
    panels,     \* the webview panels created so far
    warnings,   \* number of "No image(s) selected." warnings shown
    second      \* the batch a panel's second submit started, if any

vars ==
    <<files, op, fs, dirs, phase, launched, task, failures, successes, reports, runs,
      uri, uris, activeEditor, collected, picked, lastSelection, panels,
      warnings, second>>

\* the arguments and results of the selection resolvers
selVars == <<uri, uris, activeEditor, collected, picked>>

\* what the command handlers keep besides the batch in progress
cmdVars == <<warnings, second>>

(***************************************************************************)
(* Bounds of the model.                                                    *)
(***************************************************************************)
MaxFiles == 2

\* the largest quality a front-end sends
MaxQuality == 150

\* the number of panels opened
MaxPanels == 2
MaxWarnings == 2
MaxRuns == 1
MaxDimension == 2

(***************************************************************************)
(* Paths.  A path is [dir, base, ext]: dir the sequence of directory       *)
(* names, base the file name without its extension, ext the extension      *)
(* without the leading dot ("" when the name has none).                    *)
(***************************************************************************)
Path(d, b, e) == [dir |-> d, base |-> b, ext |-> e]

extname(p) == p.ext

basename(p) == p.base

dirname(p) == p.dir

toLowerCase(s) ==
    CASE s = "PNG" -> "png"
      [] s = "SVG" -> "svg"
      [] s = "DNG" -> "dng"
      [] s = "Jpg" -> "jpg"
      [] s = "TXT" -> "txt"
      [] OTHER -> s

\* a list of readable formats that leaves out dng
READABLE_FORMATS_NoDng ==
    {"png", "jpg", "jpeg", "webp", "gif", "tiff", "bmp", "avif", "heic", "heif", "svg"}

READABLE_FORMATS ==
    {"png", "jpg", "jpeg", "webp", "gif", "tiff", "bmp", "avif", "heic", "heif", "svg", "dng"}

INPUT_FORMATS ==
    {"png", "jpg", "jpeg", "webp", "gif", "tiff", "bmp", "avif", "heic", "heif", "svg", "dng"}

TargetFormat == {"webp", "jpg", "png"}

isImageFile(p) == toLowerCase(extname(p)) \in READABLE_FORMATS

isSupportedImage(p) == toLowerCase(extname(p)) \in INPUT_FORMATS

\* a test for svg that minds the case
isSvgPathExact(p) == extname(p) = "svg"

isSvgPath(p) == toLowerCase(extname(p)) = "svg"

\* an output path that keeps the source's extension
OutPathSameExt(p, target) == p

\* path.join(dir, `${base}.${target}`)
OutPath(p, target) == Path(dirname(p), basename(p), target)

\* path.join(dir, "favicons")
FaviconDir(p) == Append(dirname(p), "favicons")

\* a favicon file named after the requested format
FaviconPathByFormat(p, size) ==
    Path(FaviconDir(p), "favicon-" \o ToString(size) \o "x" \o ToString(size),
         IF op.format = "ico" THEN "ico" ELSE "png")

\* path.join(faviconDir, `favicon-${size}x${size}.png`): the extension is
\* "png" for the format "png" and for the format "ico" alike
FaviconPath(p, size) ==
    Path(FaviconDir(p), "favicon-" \o ToString(size) \o "x" \o ToString(size), "png")

\* path.join(faviconDir, "favicon.ico")
FaviconIcoPath(p) == Path(FaviconDir(p), "favicon", "ico")

(***************************************************************************)
(* Options and the transform pipeline.  An optional value is a sequence of *)
(* length 0 or 1.                                                          *)
(***************************************************************************)
None == <<>>

Some(v) == <<v>>

\* the values of an optional parameter
Optional(S) == {None} \cup { Some(x) : x \in S }

Max(a, b) == IF a >= b THEN a ELSE b

Min(a, b) == IF a <= b THEN a ELSE b

clamp(n, min, max) == Max(min, Min(max, n))

\* opts?.quality || dflt
OrDefaultFalsy(o, dflt) == IF o = None \/ o[1] = 0 THEN dflt ELSE o[1]

\* opts?.quality ?? dflt
OrDefault(o, dflt) == IF o = None THEN dflt ELSE o[1]

\* JavaScript truthiness of an optional number: undefined and 0 are falsy
Truthy(o) == o # None /\ o[1] # 0

NoResize == [width |-> None, height |-> None, fit |-> "none", withoutEnlargement |-> FALSE]

\* a pipeline whose resize looks at maxWidth alone
ConvertPipelineWidthOnly(p, target, o, dfltQuality) ==
    [ animated |-> TRUE,
      resize   |-> IF Truthy(o.maxWidth)
                   THEN [width |-> o.maxWidth, height |-> o.maxHeight,
                         fit |-> "inside", withoutEnlargement |-> TRUE]
                   ELSE NoResize,
      format   |-> target,
      quality  |-> clamp(OrDefault(o.quality, dfltQuality), 1, 100),
      flatten  |-> (target = "jpg" /\ isSvgPath(p)) ]

\* The pipeline convertFile builds for one file: sharp(filePath, {animated:
\* true}), an optional resize, the encoder of the target and, for jpg from
\* svg, a flatten onto white.
ConvertPipeline(p, target, o, dfltQuality) ==
    [ animated |-> TRUE,
      resize   |-> IF Truthy(o.maxWidth) \/ Truthy(o.maxHeight)
                   THEN [width |-> o.maxWidth, height |-> o.maxHeight,
                         fit |-> "inside", withoutEnlargement |-> TRUE]
                   ELSE NoResize,
      format   |-> target,
      quality  |-> clamp(OrDefault(o.quality, dfltQuality), 1, 100),
      flatten  |-> (target = "jpg" /\ isSvgPath(p)) ]

\* a per-size pipeline that flattens every svg
FaviconPipelineFlattenSvg(p, size, o) ==
    [ animated |-> FALSE,
      resize   |-> [width |-> Some(size), height |-> Some(size),
                    fit |-> "cover", withoutEnlargement |-> FALSE],
      format   |-> "png",
      quality  |-> clamp(OrDefault(o.quality, 90), 1, 100),
      flatten  |-> isSvgPath(p) ]

\* The pipeline generateFaviconSet builds for one size
FaviconPipeline(p, size, o) ==
    [ animated |-> FALSE,
      resize   |-> [width |-> Some(size), height |-> Some(size),
                    fit |-> "cover", withoutEnlargement |-> FALSE],
      format   |-> "png",
      quality  |-> clamp(OrDefault(o.quality, 90), 1, 100),
      flatten  |-> (isSvgPath(p) /\ o.format # "png") ]

\* a favicon.ico pipeline that flattens like the per-size ones
IcoPipelineByFormat(p, o) ==
    [ animated |-> FALSE,
      resize   |-> [width |-> Some(16), height |-> Some(16),
                    fit |-> "cover", withoutEnlargement |-> FALSE],
      format   |-> "png",
      quality  |-> clamp(OrDefault(o.quality, 90), 1, 100),
      flatten  |-> (isSvgPath(p) /\ o.format # "png") ]

\* The pipeline of the additional favicon.ico
IcoPipeline(p, o) ==
    [ animated |-> FALSE,
      resize   |-> [width |-> Some(16), height |-> Some(16),
                    fit |-> "cover", withoutEnlargement |-> FALSE],
      format   |-> "png",
      quality  |-> clamp(OrDefault(o.quality, 90), 1, 100),
      flatten  |-> isSvgPath(p) ]

(***************************************************************************)
(* File contents.  Bytes are the image they show and the pipeline that     *)
(* encoded them; a file nobody converted yet shows its own image.          *)
(***************************************************************************)
SourcePipeline ==
    [animated |-> FALSE, resize |-> NoResize, format |-> "source", quality |-> 0, flatten |-> FALSE]

PartialPipeline ==
    [animated |-> FALSE, resize |-> NoResize, format |-> "partial", quality |-> 0, flatten |-> FALSE]

Original(p) == [img |-> p, pipe |-> SourcePipeline]

\* what a failed write can leave behind: a truncated file
Partial(bytes) == [img |-> bytes.img, pipe |-> PartialPipeline]

Decodable(bytes) == bytes.pipe.format # "partial"

\* pipeline.toBuffer() on a file holding `bytes`
Encode(bytes, pipe) == [img |-> bytes.img, pipe |-> pipe]

Exists(f, p) == p \in DOMAIN f

\* fs.writeFileSync(p, bytes) / fs.writeFile(p, bytes), succeeding
WriteFile(f, p, bytes) == [q \in (DOMAIN f) \cup {p} |-> IF q = p THEN bytes ELSE f[q]]

\* fs.unlinkSync(p) / fs.unlink(p), succeeding
Unlink(f, p) == [q \in (DOMAIN f) \ {p} |-> f[q]]

(***************************************************************************)
(* Errors.  message is what String(e?.message ?? e) yields.                *)
(***************************************************************************)
\* new Error(`Unsupported format: .${inputExt}`)
UnsupportedFormat(inputExt) == [kind |-> "Unsupported format", ext |-> inputExt]

\* the codec's rejection of toBuffer() when the input file does not exist
MissingInput == [kind |-> "Input file is missing", ext |-> ""]

\* whatever else the codec rejects toBuffer() with
DecodeError == [kind |-> "codec error", ext |-> ""]

\* whatever fs.writeFileSync / fs.writeFile throws
WriteError == [kind |-> "write error", ext |-> ""]

\* whatever fs.mkdirSync throws
MkdirError == [kind |-> "mkdir error", ext |-> ""]

(***************************************************************************)
(* Tasks.  pc is the place the file's async function has reached:          *)
(*   "new"        files.map has not called it yet                          *)
(*   "decoding"   awaiting pipeline.toBuffer()                             *)
(*   "decoded"    toBuffer() has produced buf, the continuation is queued  *)
(*   "unlinking"  convertSingleFile awaiting fs.unlink                     *)
(*   "writing"    convertSingleFile awaiting fs.writeFile                  *)
(*   "returned"   the runner's promise is fulfilled                        *)
(*   "thrown"     the runner's promise is rejected with err                *)
(*   "ok", "failed"  the batch's own callback has finished                 *)
(* calls counts the runner's invocations; unlinked and written record the  *)
(* outcome of the replacement's two steps; deleted and wrote the paths the *)
(* task changed; k the favicon size being produced.                        *)
(***************************************************************************)
NewTask ==
    [ pc |-> "new", buf |-> None, err |-> None, calls |-> 0, k |-> 0,
      unlinked |-> "none", written |-> "none", deleted |-> {}, wrote |-> {} ]

Tasks == 1..Len(files)

Settled(i) == task[i].pc \in {"ok", "failed"}

\* a Promise.all that is over as soon as one callback has failed
AllSettledFailFast == (\A i \in Tasks : Settled(i)) \/ (\E i \in Tasks : task[i].pc = "failed")

\* Promise.all over the wrapped callbacks, none of which rejects: it is
\* fulfilled when every one of them has finished
AllSettled == \A i \in Tasks : Settled(i)

Throw(t, e) == [t EXCEPT !.pc = "thrown", !.err = Some(e), !.buf = None]

(***************************************************************************)
(* The batch's callback around the runner:                                 *)
(*   try { await runner(f) [handleBatch: successes.push(out)] }            *)
(*   catch (e) { failures.push({ file: f.fsPath, error: String(...) }) }   *)
(* Its continuation runs as a microtask right after the runner's promise   *)
(* settles, before any other I/O completion is delivered, so it is part of *)
(* the action in which the runner settles.                                 *)
(***************************************************************************)
\* the path convertSingleFile returns
Returned(i) == OutPath(files[i], op.target)

\* a callback without the try/catch: the error escapes it
CallbackNoCatch(t) ==
    CASE t.pc = "returned" -> [t EXCEPT !.pc = "ok"]
      [] OTHER -> t

\* the callback's state once the runner has left task i as t
Callback(t) ==
    CASE t.pc = "returned" -> [t EXCEPT !.pc = "ok"]
      [] t.pc = "thrown" -> [t EXCEPT !.pc = "failed"]
      [] OTHER -> t

\* a push that is not confined to the catch block
CatchAlways(fl, i, t) ==
    IF t.pc \in {"thrown", "returned"}
    THEN Append(fl, [file |-> files[i], error |-> IF t.err = None THEN DecodeError ELSE t.err[1]])
    ELSE fl

\* the catch block: failures after the runner has left task i as t
Catch(fl, i, t) ==
    IF t.pc = "thrown"
    THEN Append(fl, [file |-> files[i], error |-> t.err[1]])
    ELSE fl

\* handleBatch's successes after the runner has left task i as t
Then(sc, i, t) ==
    IF t.pc = "returned" /\ op.kind = "convertSingleFile"
    THEN Append(sc, Returned(i))
    ELSE sc

\* task i's runner has reached t in this step
Step(i, t) ==
    /\ task' = [task EXCEPT ![i] = Callback(t)]
    /\ failures' = Catch(failures, i, t)
    /\ successes' = Then(successes, i, t)

(***************************************************************************)
(* The batch: batch(files, runner) and handleBatch(files, runner).         *)
(***************************************************************************)
\* A command handler calls the batch: failures (and successes) start empty
\* and files.map begins.
StartBatch ==
    /\ phase = "idle"
    /\ phase' = "mapping"
    /\ runs' = runs + 1
    /\ launched' = 0
    /\ task' = [i \in Tasks |-> NewTask]
    /\ failures' = <<>>
    /\ successes' = <<>>
    /\ UNCHANGED <<selVars, cmdVars, lastSelection, panels, files, op, fs, dirs, reports>>

\* the command is invoked on the selection
Invoke == runs = 0 /\ StartBatch

\* the same command is invoked a second time on the same selection, after
\* the first batch has returned
InvokeAgain == runs = 1 /\ StartBatch

\* convertFile up to its first await
LaunchConvertFile(i) ==
    LET p == files[i]
        inputExt == toLowerCase(extname(p))
        t == [task[i] EXCEPT !.calls = @ + 1]
    IN  /\ task' = [task EXCEPT ![i] =
                      IF inputExt \notin INPUT_FORMATS
                      THEN Throw(t, UnsupportedFormat(inputExt))
                      ELSE [t EXCEPT !.pc = "decoding"]]
        /\ UNCHANGED <<fs, dirs>>

\* convertSingleFile up to its first await: no check of the extension
LaunchConvertSingleFile(i) ==
    /\ task' = [task EXCEPT ![i] = [@ EXCEPT !.calls = @ + 1, !.pc = "decoding"]]
    /\ UNCHANGED <<fs, dirs>>

\* a generator that calls a non-recursive mkdir unconditionally: it throws
\* when the directory is there
LaunchGenerateFaviconSetMkdirAlways(i) ==
    LET p == files[i]
        inputExt == toLowerCase(extname(p))
        faviconDir == FaviconDir(p)
        t == [task[i] EXCEPT !.calls = @ + 1]
        begin == IF Len(op.sizes) > 0
                 THEN [t EXCEPT !.pc = "decoding", !.k = 1]
                 ELSE [t EXCEPT !.pc = "returned"]
    IN  IF inputExt \notin INPUT_FORMATS
        THEN /\ task' = [task EXCEPT ![i] = Throw(t, UnsupportedFormat(inputExt))]
             /\ UNCHANGED <<fs, dirs>>
        ELSE IF faviconDir \in dirs
        THEN /\ task' = [task EXCEPT ![i] = Throw(t, MkdirError)]
             /\ UNCHANGED <<fs, dirs>>
        ELSE \/ /\ dirs' = dirs \cup {faviconDir}
                /\ task' = [task EXCEPT ![i] = begin]
                /\ UNCHANGED fs
             \/ /\ task' = [task EXCEPT ![i] = Throw(t, MkdirError)]
                /\ UNCHANGED <<fs, dirs>>

\* generateFaviconSet up to its first await: the check of the extension,
\* the creation of the favicons directory, the first size's pipeline
LaunchGenerateFaviconSet(i) ==
    LET p == files[i]
        inputExt == toLowerCase(extname(p))
        faviconDir == FaviconDir(p)
        t == [task[i] EXCEPT !.calls = @ + 1]
        begin == IF Len(op.sizes) > 0
                 THEN [t EXCEPT !.pc = "decoding", !.k = 1]
                 ELSE [t EXCEPT !.pc = "returned"]
    IN  IF inputExt \notin INPUT_FORMATS
        THEN /\ task' = [task EXCEPT ![i] = Throw(t, UnsupportedFormat(inputExt))]
             /\ UNCHANGED <<fs, dirs>>
        ELSE IF faviconDir \in dirs
        THEN /\ task' = [task EXCEPT ![i] = begin]
             /\ UNCHANGED <<fs, dirs>>
        ELSE \/ /\ dirs' = dirs \cup {faviconDir}
                /\ task' = [task EXCEPT ![i] = begin]
                /\ UNCHANGED fs
             \/ /\ task' = [task EXCEPT ![i] = Throw(t, MkdirError)]
                /\ UNCHANGED <<fs, dirs>>

\* files.map(async (f) => { ... runner(f) ... }): the callbacks are called
\* one after the other, in the order of files, each running to its first
\* await before the next is called
Launch(i) ==
    /\ phase = "mapping"
    /\ i = launched + 1
    /\ i \in Tasks
    /\ launched' = i
    /\ CASE op.kind = "convertFile" -> LaunchConvertFile(i)
         [] op.kind = "convertSingleFile" -> LaunchConvertSingleFile(i)
         [] op.kind = "generateFaviconSet" -> LaunchGenerateFaviconSet(i)
    /\ UNCHANGED <<selVars, cmdVars, lastSelection, panels, files, op, phase, failures, successes, reports, runs>>

\* the callbacks of the tasks 1..n whose runner settled inside files.map,
\* run in the order of files
RECURSIVE CatchAll(_, _)
CatchAll(fl, n) ==
    IF n = 0 THEN fl ELSE Catch(CatchAll(fl, n - 1), n, task[n])

RECURSIVE ThenAll(_, _)
ThenAll(sc, n) ==
    IF n = 0 THEN sc ELSE Then(ThenAll(sc, n - 1), n, task[n])

\* await Promise.all(...): files.map has returned and the batch suspends;
\* the callbacks of the runners that settled without awaiting run now
AwaitAll ==
    /\ phase = "mapping"
    /\ launched = Len(files)
    /\ phase' = "waiting"
    /\ task' = [i \in Tasks |-> Callback(task[i])]
    /\ failures' = CatchAll(failures, Len(files))
    /\ successes' = ThenAll(successes, Len(files))
    /\ UNCHANGED <<selVars, cmdVars, lastSelection, panels, files, op, fs, dirs, launched, reports, runs>>

(***************************************************************************)
(* The per-file functions past their first await.                          *)
(***************************************************************************)
\* the pipeline whose toBuffer() task i is awaiting
CurrentPipeline(i) ==
    LET p == files[i]
    IN  CASE op.kind = "convertFile" -> ConvertPipeline(p, op.target, op.opts, 82)
          [] op.kind = "convertSingleFile" -> ConvertPipeline(p, op.target, op.opts, 80)
          [] op.kind = "generateFaviconSet" ->
                IF task[i].k <= Len(op.sizes)
                THEN FaviconPipeline(p, op.sizes[task[i].k], op)
                ELSE IcoPipeline(p, op)

\* a toBuffer() awaited in a loop over the files: it is not started before
\* the earlier files are done
DecodeInOrder(i) ==
    LET p == files[i]
        next == IF op.kind = "convertSingleFile" THEN "unlinking" ELSE "decoded"
    IN  /\ phase = "waiting"
        /\ i \in Tasks
        /\ task[i].pc = "decoding"
        /\ \A j \in 1..(i - 1) : task[j].pc \in {"ok", "failed"}
        /\ \/ /\ Exists(fs, p) /\ Decodable(fs[p])
              /\ Step(i, [task[i] EXCEPT !.pc = next,
                                         !.buf = Some(Encode(fs[p], CurrentPipeline(i)))])
           \/ /\ Exists(fs, p)
              /\ Step(i, Throw(task[i], DecodeError))
           \/ /\ ~Exists(fs, p)
              /\ Step(i, Throw(task[i], MissingInput))
        /\ UNCHANGED <<selVars, cmdVars, lastSelection, panels, files, op, fs, dirs, phase, launched, reports, runs>>

\* a conversion that removes the original before it decodes it
DecodeAfterDelete(i) ==
    LET p == files[i]
        next == IF op.kind = "convertSingleFile" THEN "unlinking" ELSE "decoded"
    IN  /\ phase = "waiting"
        /\ i \in Tasks
        /\ task[i].pc = "decoding"
        /\ \/ /\ Exists(fs, p) /\ Decodable(fs[p])
              /\ Step(i, [task[i] EXCEPT !.pc = next,
                                         !.buf = Some(Encode(fs[p], CurrentPipeline(i)))])
              /\ fs' = fs
           \/ /\ Exists(fs, p)
              /\ Step(i, Throw(task[i], DecodeError))
              /\ fs' = Unlink(fs, p)
           \/ /\ ~Exists(fs, p)
              /\ Step(i, Throw(task[i], MissingInput))
              /\ fs' = fs
        /\ UNCHANGED <<selVars, cmdVars, lastSelection, panels, files, op, dirs, phase, launched, reports, runs>>

\* pipeline.toBuffer(): the codec reads the source file and encodes it, or
\* rejects (the file is missing; it is not an image, or the codec fails)
Decode(i) ==
    LET p == files[i]
        next == IF op.kind = "convertSingleFile" THEN "unlinking" ELSE "decoded"
    IN  /\ phase = "waiting"
        /\ i \in Tasks
        /\ task[i].pc = "decoding"
        /\ \/ /\ Exists(fs, p) /\ Decodable(fs[p])
              /\ Step(i, [task[i] EXCEPT !.pc = next,
                                         !.buf = Some(Encode(fs[p], CurrentPipeline(i)))])
           \/ /\ Exists(fs, p)
              /\ Step(i, Throw(task[i], DecodeError))
           \/ /\ ~Exists(fs, p)
              /\ Step(i, Throw(task[i], MissingInput))
        /\ UNCHANGED <<selVars, cmdVars, lastSelection, panels, files, op, fs, dirs, phase, launched, reports, runs>>

\* the outcomes of deleting p: it is removed, or the call throws (always
\* when p does not exist) and the filesystem is as before
UnlinkOutcomes(f, p) ==
    (IF Exists(f, p) THEN {[ok |-> TRUE, fs |-> Unlink(f, p)]} ELSE {})
        \cup {[ok |-> FALSE, fs |-> f]}

\* the outcomes of writing bytes to p: the file holds them, or the call
\* throws, leaving p as it was or truncated
WriteOutcomes(f, p, bytes) ==
    { [ok |-> TRUE, fs |-> WriteFile(f, p, bytes)],
      [ok |-> FALSE, fs |-> f],
      [ok |-> FALSE, fs |-> WriteFile(f, p, Partial(bytes))] }

\* whatever fs.unlinkSync / fs.unlink throws
UnlinkError == [kind |-> "unlink error", ext |-> ""]

\* an unlink outside any try: its error leaves the function
AfterUnlinkUncaught(t, p, u) ==
    IF u.ok
    THEN [t EXCEPT !.unlinked = "ok", !.deleted = @ \cup {p}]
    ELSE Throw([t EXCEPT !.unlinked = "failed"], UnlinkError)

\* try { unlink } catch {}: the task after the unlink's outcome u, whatever
\* it is
AfterUnlink(t, p, u) ==
    [t EXCEPT !.unlinked = IF u.ok THEN "ok" ELSE "failed",
              !.deleted = IF u.ok THEN @ \cup {p} ELSE @]

\* a write whose error is swallowed like the unlink's
AfterWriteSwallowed(t, f, out, w) ==
    [t EXCEPT !.written = IF w.ok THEN "ok" ELSE "failed",
              !.wrote = IF w.ok \/ w.fs # f THEN @ \cup {out} ELSE @,
              !.pc = "returned"]

\* the task after the outcome w of writing out to the filesystem f: the
\* function goes on, or the write's error leaves it
AfterWrite(t, f, out, w) ==
    LET t1 == [t EXCEPT !.written = IF w.ok THEN "ok" ELSE "failed",
                        !.wrote = IF w.ok \/ w.fs # f THEN @ \cup {out} ELSE @]
    IN  IF w.ok THEN [t1 EXCEPT !.pc = "returned"] ELSE Throw(t1, WriteError)

\* a replacement that writes the new file first and deletes the original
\* afterwards
ReplaceWriteThenDelete(i) ==
    LET p == files[i]
        outPath == OutPath(p, op.target)
    IN  /\ phase = "waiting"
        /\ i \in Tasks
        /\ op.kind = "convertFile"
        /\ task[i].pc = "decoded"
        /\ \E w \in WriteOutcomes(fs, outPath, task[i].buf[1]) :
             LET t == AfterWrite(task[i], fs, outPath, w)
             IN  IF t.pc = "thrown"
                 THEN fs' = w.fs /\ Step(i, t)
                 ELSE \E u \in UnlinkOutcomes(w.fs, p) :
                        /\ fs' = u.fs
                        /\ Step(i, AfterUnlink(t, p, u))
        /\ UNCHANGED <<selVars, cmdVars, lastSelection, panels, files, op, dirs, phase, launched, reports, runs>>

\* convertFile after `await pipeline.toBuffer()`: unlinkSync in a try with
\* an empty catch, then writeFileSync, in one synchronous stretch
Replace(i) ==
    LET p == files[i]
        outPath == OutPath(p, op.target)
    IN  /\ phase = "waiting"
        /\ i \in Tasks
        /\ op.kind = "convertFile"
        /\ task[i].pc = "decoded"
        /\ \E u \in UnlinkOutcomes(fs, p) :
             LET t == AfterUnlink(task[i], p, u)
             IN  IF t.pc = "thrown"
                 THEN fs' = u.fs /\ Step(i, t)
                 ELSE \E w \in WriteOutcomes(u.fs, outPath, t.buf[1]) :
                        /\ fs' = w.fs
                        /\ Step(i, AfterWrite(t, u.fs, outPath, w))
        /\ UNCHANGED <<selVars, cmdVars, lastSelection, panels, files, op, dirs, phase, launched, reports, runs>>

\* convertSingleFile: `await fs.unlink(inputPath)` in a try with an empty
\* catch; whatever the outcome, fs.writeFile is called next
UnlinkDone(i) ==
    LET p == files[i]
    IN  /\ phase = "waiting"
        /\ i \in Tasks
        /\ op.kind = "convertSingleFile"
        /\ task[i].pc = "unlinking"
        /\ \E u \in UnlinkOutcomes(fs, p) :
             LET t == AfterUnlink(task[i], p, u)
             IN  /\ fs' = u.fs
                 /\ Step(i, IF t.pc = "thrown" THEN t ELSE [t EXCEPT !.pc = "writing"])
        /\ UNCHANGED <<selVars, cmdVars, lastSelection, panels, files, op, dirs, phase, launched, reports, runs>>

\* convertSingleFile: `await fs.writeFile(outPath, data)`; return outPath
WriteDone(i) ==
    LET p == files[i]
        outPath == OutPath(p, op.target)
    IN  /\ phase = "waiting"
        /\ i \in Tasks
        /\ op.kind = "convertSingleFile"
        /\ task[i].pc = "writing"
        /\ \E w \in WriteOutcomes(fs, outPath, task[i].buf[1]) :
                /\ fs' = w.fs
                /\ Step(i, AfterWrite(task[i], fs, outPath, w))
        /\ UNCHANGED <<selVars, cmdVars, lastSelection, panels, files, op, dirs, phase, launched, reports, runs>>

\* a generator that writes its rendition over the source
FaviconOutOverSource(p, k) == p

\* the path generateFaviconSet writes at step k: the k-th size's file, and
\* past the sizes the favicon.ico
FaviconOut(p, k) ==
    IF k <= Len(op.sizes) THEN FaviconPath(p, op.sizes[k]) ELSE FaviconIcoPath(p)

\* opts.sizes.includes(16)
Includes16(sizes) == \E j \in 1..Len(sizes) : sizes[j] = 16

\* a generator that removes what it has written when a write fails
FaviconWriteCleansUp(i) ==
    LET p == files[i]
        k == task[i].k
        outPath == FaviconOut(p, k)
        more == k < Len(op.sizes) \/ (k = Len(op.sizes) /\ Includes16(op.sizes))
    IN  /\ phase = "waiting"
        /\ i \in Tasks
        /\ op.kind = "generateFaviconSet"
        /\ task[i].pc = "decoded"
        /\ \E w \in WriteOutcomes(fs, outPath, task[i].buf[1]) :
                /\ fs' = IF w.ok
                          THEN w.fs
                          ELSE [q \in DOMAIN w.fs \ (task[i].wrote \cup {outPath}) |-> w.fs[q]]
                /\ LET t == AfterWrite(task[i], fs, outPath, w)
                   IN  Step(i, IF w.ok /\ more
                               THEN [t EXCEPT !.pc = "decoding", !.k = k + 1, !.buf = None]
                               ELSE t)
        /\ UNCHANGED <<selVars, cmdVars, lastSelection, panels, files, op, dirs, phase, launched, reports, runs>>

\* generateFaviconSet after an `await pipeline.toBuffer()`: writeFileSync of
\* the rendition, then the next size's pipeline, or the favicon.ico's when
\* 16 is among the sizes, or the end
FaviconWrite(i) ==
    LET p == files[i]
        k == task[i].k
        outPath == FaviconOut(p, k)
        more == k < Len(op.sizes) \/ (k = Len(op.sizes) /\ Includes16(op.sizes))
    IN  /\ phase = "waiting"
        /\ i \in Tasks
        /\ op.kind = "generateFaviconSet"
        /\ task[i].pc = "decoded"
        /\ \E w \in WriteOutcomes(fs, outPath, task[i].buf[1]) :
                /\ fs' = w.fs
                /\ LET t == AfterWrite(task[i], fs, outPath, w)
                   IN  Step(i, IF w.ok /\ more
                               THEN [t EXCEPT !.pc = "decoding", !.k = k + 1, !.buf = None]
                               ELSE t)
        /\ UNCHANGED <<selVars, cmdVars, lastSelection, panels, files, op, dirs, phase, launched, reports, runs>>

(***************************************************************************)
(* The report.                                                             *)
(***************************************************************************)
\* batch: showInformationMessage(`Converted ${N} of ${M} image(s).`) and,
\* if (failures.length), the output channel with one line per failure
BatchReport ==
    [ info    |-> Some([converted |-> Len(files) - Len(failures), of |-> Some(Len(files))]),
      error   |-> None,
      channel |-> IF Len(failures) > 0 THEN Some(failures) ELSE None ]

\* handleBatch: if (successes.length) an information message with the
\* number of successes; if (failures.length) an error message with the
\* number of failures and the output channel with one line per failure
HandleBatchReport ==
    [ info    |-> IF Len(successes) > 0
                  THEN Some([converted |-> Len(successes), of |-> None])
                  ELSE None,
      error   |-> IF Len(failures) > 0 THEN Some(Len(failures)) ELSE None,
      channel |-> IF Len(failures) > 0 THEN Some(failures) ELSE None ]

\* panel.dispose() of the panel whose submit handler awaited the batch
Dispose(ps) ==
    [k \in DOMAIN ps |-> IF ps[k].state = "submitted" THEN [ps[k] EXCEPT !.state = "disposed"] ELSE ps[k]]

\* the code after `await Promise.all(...)` and, when a panel's submit
\* handler awaited the batch, the handler's continuation
Report ==
    /\ phase = "waiting"
    /\ AllSettled
    /\ phase' = "idle"
    /\ reports' = Append(reports,
                    IF op.kind = "convertSingleFile" THEN HandleBatchReport ELSE BatchReport)
    /\ panels' = Dispose(panels)
    /\ UNCHANGED <<selVars, cmdVars, lastSelection, files, op, fs, dirs, launched, task, failures, successes, runs>>

(***************************************************************************)
(* The inputs.                                                             *)
(***************************************************************************)
\* the files of the explorer, in the order it lists them
Explorer ==
    << Path(<<"d">>, "a", "png"), Path(<<"d">>, "a", "txt"),
       Path(<<"d">>, "a", "webp"), Path(<<"e">>, "b", "PNG") >>

Paths == { Explorer[n] : n \in DOMAIN Explorer }

\* the place of path p in the explorer
Rank(p) == CHOOSE n \in DOMAIN Explorer : Explorer[n] = p

\* the selection s lists its files in the explorer's order
InExplorerOrder(s) == \A i, j \in DOMAIN s : i < j => Rank(s[i]) < Rank(s[j])

\* the selections: sequences of distinct paths
Selections ==
    { s \in UNION { [1..n -> Paths] : n \in 1..MaxFiles } :
        \A i, j \in DOMAIN s : i # j => s[i] # s[j] }

NoOpts == [maxWidth |-> None, maxHeight |-> None, quality |-> None]

ConvertOps ==
    { [kind |-> k, target |-> t, opts |-> o, sizes |-> <<>>, format |-> "png", quality |-> None] :
        k \in {"convertFile", "convertSingleFile"}, t \in {"webp", "png"}, o \in {NoOpts} }

FaviconOps ==
    { [kind |-> "generateFaviconSet", target |-> "png", opts |-> NoOpts,
       sizes |-> x[1], format |-> x[2], quality |-> None] :
        x \in {<<<<16>>, "png">>, <<<<32>>, "ico">>} }

Range(s) == { s[i] : i \in DOMAIN s }

\* the files of the selection exist, except at most one
InitialFs ==
    { [p \in Range(files) \ gone |-> Original(p)] :
        gone \in {{}} \cup { {p} : p \in Range(files) } }

\* nothing has run yet: the selection, the command and the files are given
InitWith(ops) ==
    /\ files \in Selections
    /\ op \in ops
    /\ fs \in InitialFs
    /\ dirs = {}
    /\ phase = "idle"
    /\ launched = 0
    /\ task = [i \in Tasks |-> NewTask]
    /\ failures = <<>>
    /\ successes = <<>>
    /\ reports = <<>>
    /\ runs = 0
    /\ uri = None /\ uris = None /\ activeEditor = None
    /\ collected = None /\ picked = None
    /\ warnings = 0 /\ second = None
    /\ lastSelection = <<>>
    /\ panels = <<>>

Init == InitWith(ConvertOps \cup FaviconOps)

Next ==
    \/ Invoke
    \/ \E i \in Tasks : Launch(i)
    \/ AwaitAll
    \/ \E i \in Tasks : Decode(i)
    \/ \E i \in Tasks : Replace(i)
    \/ \E i \in Tasks : UnlinkDone(i)
    \/ \E i \in Tasks : WriteDone(i)
    \/ \E i \in Tasks : FaviconWrite(i)
    \/ Report

Spec == Init /\ [][Next]_vars

\* a convertFile command invoked twice on one selection, which
\* collectSelection has filtered and which is in the explorer's order
InitTwice ==
    /\ InitWith({ o \in ConvertOps : o.kind = "convertFile" })
    /\ \A i \in Tasks : isSupportedImage(files[i])
    /\ InExplorerOrder(files)

NextTwice ==
    \/ Invoke
    \/ InvokeAgain
    \/ \E i \in Tasks : Launch(i)
    \/ AwaitAll
    \/ \E i \in Tasks : Decode(i)
    \/ \E i \in Tasks : Replace(i)
    \/ Report

SpecTwice == InitTwice /\ [][NextTwice]_vars

\* the files of a project whose favicons were generated before
FaviconExplorer ==
    << Path(<<"d">>, "a", "png"), Path(<<"d">>, "c", "SVG"),
       Path(<<"d", "favicons">>, "favicon-16x16", "png") >>

\* the selections of the favicon command: collectSelection's result on
\* files of that project
FaviconSelections ==
    { s \in UNION { [1..n -> Range(FaviconExplorer)] : n \in 1..MaxFiles } :
        \A i, j \in DOMAIN s :
            i < j => \E m, n \in DOMAIN FaviconExplorer :
                        m < n /\ FaviconExplorer[m] = s[i] /\ FaviconExplorer[n] = s[j] }

\* the payloads of the favicon panel's submit message
FaviconPayloads ==
    { [kind |-> "generateFaviconSet", target |-> "png", opts |-> NoOpts,
       sizes |-> sz, format |-> f, quality |-> None] :
        sz \in {<<>>, <<16>>, <<32>>, <<32, 16>>}, f \in {"png", "ico"} }

\* the favicon command on a selection of that project
InitFavicon ==
    /\ files \in FaviconSelections
    /\ op \in FaviconPayloads
    /\ fs \in InitialFs
    /\ dirs = { dirname(p) : p \in DOMAIN fs }
    /\ phase = "idle"
    /\ launched = 0
    /\ task = [i \in Tasks |-> NewTask]
    /\ failures = <<>>
    /\ successes = <<>>
    /\ reports = <<>>
    /\ runs = 0
    /\ uri = None /\ uris = None /\ activeEditor = None
    /\ collected = None /\ picked = None
    /\ warnings = 0 /\ second = None
    /\ lastSelection = <<>>
    /\ panels = <<>>

NextFavicon ==
    \/ Invoke
    \/ \E i \in Tasks : Launch(i)
    \/ AwaitAll
    \/ \E i \in Tasks : Decode(i)
    \/ \E i \in Tasks : FaviconWrite(i)
    \/ Report

SpecFavicon == InitFavicon /\ [][NextFavicon]_vars

\* the qualities a front-end can send: any integer of a range that
\* reaches below 1 and beyond 100
Qualities == (0 - 1)..MaxQuality

\* the payloads of the convert-and-resize panel that set the quality, and
\* the same options handed to convertSingleFile
QualityOps ==
    { [kind |-> k, target |-> t, opts |-> [maxWidth |-> None, maxHeight |-> None, quality |-> q],
       sizes |-> <<>>, format |-> "png", quality |-> None] :
        k \in {"convertFile", "convertSingleFile"}, t \in TargetFormat, q \in Optional(Qualities) }

\* the payloads of the favicon panel that set the quality
FaviconQualityOps ==
    { [kind |-> "generateFaviconSet", target |-> "png", opts |-> NoOpts,
       sizes |-> <<16>>, format |-> f, quality |-> q] :
        f \in {"png", "ico"}, q \in Optional(Qualities) }

\* a raster file and vector files, one with an upper-case extension
OptionPaths == { Path(<<"d">>, "a", "png"), Path(<<"d">>, "c", "svg"), Path(<<"d">>, "c", "SVG") }

\* one file, any target and any quality
InitOptions ==
    /\ files \in { <<q>> : q \in OptionPaths }
    /\ op \in QualityOps \cup FaviconQualityOps
    /\ fs \in InitialFs
    /\ dirs = {}
    /\ phase = "idle"
    /\ launched = 0
    /\ task = [i \in Tasks |-> NewTask]
    /\ failures = <<>>
    /\ successes = <<>>
    /\ reports = <<>>
    /\ runs = 0
    /\ uri = None /\ uris = None /\ activeEditor = None
    /\ collected = None /\ picked = None
    /\ warnings = 0 /\ second = None
    /\ lastSelection = <<>>
    /\ panels = <<>>

NextOptions ==
    \/ Invoke
    \/ \E i \in Tasks : Launch(i)
    \/ AwaitAll
    \/ \E i \in Tasks : Decode(i)
    \/ \E i \in Tasks : Replace(i)
    \/ \E i \in Tasks : UnlinkDone(i)
    \/ \E i \in Tasks : WriteDone(i)
    \/ \E i \in Tasks : FaviconWrite(i)
    \/ Report

SpecOptions == InitOptions /\ [][NextOptions]_vars

\* the widths and heights a caller gives
Dimensions == 0..MaxDimension

\* the conversions with a maxWidth, a maxHeight, both or neither
ResizeOps ==
    { [kind |-> k, target |-> t, opts |-> [maxWidth |-> w, maxHeight |-> h, quality |-> None],
       sizes |-> <<>>, format |-> "png", quality |-> None] :
        k \in {"convertFile", "convertSingleFile"}, t \in TargetFormat,
        w \in Optional(Dimensions), h \in Optional(Dimensions) }

\* one file, converted with resize options
InitResize ==
    /\ files \in { <<q>> : q \in OptionPaths }
    /\ op \in ResizeOps
    /\ fs \in InitialFs
    /\ dirs = {}
    /\ phase = "idle"
    /\ launched = 0
    /\ task = [i \in Tasks |-> NewTask]
    /\ failures = <<>>
    /\ successes = <<>>
    /\ reports = <<>>
    /\ runs = 0
    /\ uri = None /\ uris = None /\ activeEditor = None
    /\ collected = None /\ picked = None
    /\ warnings = 0 /\ second = None
    /\ lastSelection = <<>>
    /\ panels = <<>>

NextResize ==
    \/ Invoke
    \/ \E i \in Tasks : Launch(i)
    \/ AwaitAll
    \/ \E i \in Tasks : Decode(i)
    \/ \E i \in Tasks : Replace(i)
    \/ \E i \in Tasks : UnlinkDone(i)
    \/ \E i \in Tasks : WriteDone(i)
    \/ Report

SpecResize == InitResize /\ [][NextResize]_vars

(***************************************************************************)
(* The selection resolvers.                                                *)
(***************************************************************************)
\* a deduplication whose order is that of the last occurrences
RECURSIVE UniqueLastOccurrence(_)
UniqueLastOccurrence(arr) ==
    IF arr = <<>> THEN <<>>
    ELSE LET rest == UniqueLastOccurrence(Tail(arr))
         IN  IF Head(arr) \in Range(rest) THEN rest ELSE <<Head(arr)>> \o rest

\* [...new Map(arr.map(u => [u.fsPath, u])).values()]: a Map keeps a key at
\* the place of its first insertion
RECURSIVE Unique(_)
Unique(arr) ==
    IF arr = <<>> THEN <<>>
    ELSE LET front == Unique(SubSeq(arr, 1, Len(arr) - 1))
             last == arr[Len(arr)]
         IN  IF last \in Range(front) THEN front ELSE Append(front, last)

\* collectSelection(uri, uris)
collectSelection(u, us) ==
    LET arr == IF us # None /\ Len(us[1]) > 0 THEN us[1]
               ELSE IF u # None THEN <<u[1]>> ELSE <<>>
    IN  SelectSeq(Unique(arr), isSupportedImage)

\* pickSelectedResources(arg), multi the explorer context's selection and
\* editor the active text editor's document
pickSelectedResources(arg, multi, editor) ==
    LET selected == IF editor # None THEN <<editor[1]>> ELSE <<>>
        fromArg == IF arg # None THEN <<arg[1]>> ELSE <<>>
        all == fromArg \o (IF multi # None THEN multi[1] ELSE <<>>) \o selected
    IN  Unique(SelectSeq(all, isImageFile))

\* a command handler resolves its selection
CollectSelection ==
    /\ collected = None
    /\ collected' = Some(collectSelection(uri, uris))
    /\ UNCHANGED <<uri, uris, activeEditor, picked, cmdVars, lastSelection, panels, files, op, fs, dirs,
                   phase, launched, task, failures, successes, reports, runs>>

PickSelectedResources ==
    /\ picked = None
    /\ picked' = Some(pickSelectedResources(uri, uris, activeEditor))
    /\ UNCHANGED <<uri, uris, activeEditor, collected, cmdVars, lastSelection, panels, files, op, fs, dirs,
                   phase, launched, task, failures, successes, reports, runs>>

\* the paths a command can be invoked on
SelectablePaths ==
    { Path(<<"d">>, "a", "png"), Path(<<"d">>, "a", "TXT"), Path(<<"d">>, "c", "DNG"),
      Path(<<"d">>, "n", ""), Path(<<"e">>, "b", "Jpg") }

\* a command's arguments: the clicked resource or none, the multi-selection
\* (which may repeat a path) or none, and the active editor's document
InitSelect ==
    /\ uri \in Optional(SelectablePaths)
    /\ uris \in Optional(UNION { [1..n -> SelectablePaths] : n \in 0..MaxFiles })
    /\ activeEditor \in Optional(SelectablePaths)
    /\ collected = None /\ picked = None
    /\ warnings = 0 /\ second = None
    /\ lastSelection = <<>>
    /\ panels = <<>>
    /\ files = <<>>
    /\ op \in { o \in ConvertOps : o.kind = "convertFile" /\ o.target = "webp" }
    /\ fs = <<>>
    /\ dirs = {}
    /\ phase = "idle"
    /\ launched = 0
    /\ task = <<>>
    /\ failures = <<>>
    /\ successes = <<>>
    /\ reports = <<>>
    /\ runs = 0

NextSelect ==
    \/ CollectSelection
    \/ PickSelectedResources

SpecSelect == InitSelect /\ [][NextSelect]_vars

(***************************************************************************)
(* The panels: the commands convertAndResize and generateFavicon, and the  *)
(* messages of their webviews.                                             *)
(***************************************************************************)
\* the files the panel commands are invoked on
PanelPaths == { Path(<<"d">>, "a", "png"), Path(<<"e">>, "b", "PNG") }

\* the payload a panel of this kind submits
PanelPayloads(kind) ==
    IF kind = "convertResize"
    THEN { o \in ConvertOps : o.kind = "convertFile" /\ o.target = "webp" }
    ELSE { o \in FaviconOps : o.sizes = <<16>> }

\* if (!files.length) { showWarningMessage("No image(s) selected."); return; }
NoSelection ==
    /\ warnings < MaxWarnings
    /\ warnings' = warnings + 1
    /\ UNCHANGED <<selVars, second, lastSelection, panels, files, op, fs, dirs, phase,
                   launched, task, failures, successes, reports, runs>>

\* a command that opens its panel whatever the selection
OpenPanelUnchecked(kind, u, us) ==
    LET selection == collectSelection(u, us)
    IN  /\ Len(panels) < MaxPanels
        /\ lastSelection' = selection
        /\ panels' = Append(panels, [kind |-> kind, files |-> selection, state |-> "open"])
        /\ UNCHANGED <<selVars, cmdVars, files, op, fs, dirs, phase, launched, task,
                       failures, successes, reports, runs>>

\* The command of a panel: the selection is resolved; if it is empty the
\* warning is shown and the handler returns; otherwise it is stored in
\* lastSelection, the panel is created and its message handler registered.
OpenPanel(kind, u, us) ==
    LET selection == collectSelection(u, us)
    IN  IF selection = <<>>
        THEN NoSelection
        ELSE /\ Len(panels) < MaxPanels
             /\ lastSelection' = selection
             /\ panels' = Append(panels, [kind |-> kind, files |-> selection, state |-> "open"])
             /\ UNCHANGED <<selVars, cmdVars, files, op, fs, dirs, phase, launched, task,
                            failures, successes, reports, runs>>

\* runSimple(target): the selection is resolved; if it is empty the warning
\* is shown and the handler returns; otherwise batch(files, convertFile
\* with the target and no options) is called and runs up to files.map.
\* One command's batch runs at a time.
RunSimple(target, u, us) ==
    LET selection == collectSelection(u, us)
    IN  IF selection = <<>>
        THEN NoSelection
        ELSE /\ phase = "idle"
             /\ runs < MaxRuns
             /\ files' = selection
             /\ op' = [kind |-> "convertFile", target |-> target, opts |-> NoOpts,
                       sizes |-> <<>>, format |-> "png", quality |-> None]
             /\ phase' = "mapping"
             /\ runs' = runs + 1
             /\ launched' = 0
             /\ task' = [i \in 1..Len(selection) |-> NewTask]
             /\ failures' = <<>>
             /\ successes' = <<>>
             /\ UNCHANGED <<selVars, cmdVars, lastSelection, panels, fs, dirs, reports>>

\* The message handler of panel k receives its first submit:
\* batch(lastSelection, ...) is called and runs up to files.map.
Submit(k, payload) ==
    /\ k \in DOMAIN panels
    /\ panels[k].state = "open"
    /\ payload \in PanelPayloads(panels[k].kind)
    /\ phase = "idle"
    /\ files' = lastSelection
    /\ op' = payload
    /\ phase' = "mapping"
    /\ runs' = runs + 1
    /\ launched' = 0
    /\ task' = [i \in 1..Len(lastSelection) |-> NewTask]
    /\ failures' = <<>>
    /\ successes' = <<>>
    /\ panels' = [panels EXCEPT ![k].state = "submitted"]
    /\ UNCHANGED <<selVars, cmdVars, lastSelection, fs, dirs, reports>>

\* The message handler of panel k receives a close: panel.dispose()
Close(k) ==
    /\ k \in DOMAIN panels
    /\ panels[k].state = "open"
    /\ panels' = [panels EXCEPT ![k].state = "disposed"]
    /\ UNCHANGED <<selVars, cmdVars, lastSelection, files, op, fs, dirs, phase, launched, task,
                   failures, successes, reports, runs>>

\* the extension is activated, no command has run, the files exist
InitPanels ==
    /\ lastSelection = <<>>
    /\ panels = <<>>
    /\ files = <<>>
    /\ op \in PanelPayloads("convertResize")
    /\ fs = [q \in PanelPaths |-> Original(q)]
    /\ dirs = {}
    /\ phase = "idle"
    /\ launched = 0
    /\ task = <<>>
    /\ failures = <<>>
    /\ successes = <<>>
    /\ reports = <<>>
    /\ runs = 0
    /\ uri = None /\ uris = None /\ activeEditor = None
    /\ collected = None /\ picked = None
    /\ warnings = 0 /\ second = None

\* The panel commands, invoked from the explorer on a clicked image, and the
\* panels' messages and batches
NextPanels ==
    \/ \E kind \in {"convertResize", "generateFavicon"} :
          \E u \in { Some(q) : q \in PanelPaths } :
            \E us \in Optional({<<>>} \cup { <<q>> : q \in PanelPaths }) :
                OpenPanel(kind, u, us)
    \/ \E k \in 1..MaxPanels : \E payload \in ConvertOps \cup FaviconOps : Submit(k, payload)
    \/ \E k \in 1..MaxPanels : Close(k)
    \/ \E i \in Tasks : Launch(i)
    \/ AwaitAll
    \/ \E i \in Tasks : Decode(i)
    \/ \E i \in Tasks : Replace(i)
    \/ \E i \in Tasks : FaviconWrite(i)
    \/ Report

SpecPanels == InitPanels /\ [][NextPanels]_vars

\* an image and a file that is not one
CommandPaths == { Path(<<"d">>, "a", "png"), Path(<<"d">>, "n", "TXT") }

\* the arguments a command is invoked with: a clicked resource or none, a
\* multi-selection of no or one resource or none
CommandArgs ==
    Optional(CommandPaths) \X Optional({<<>>} \cup { <<q>> : q \in CommandPaths })

\* the extension is activated, no command has run, the files exist
InitCommands ==
    /\ lastSelection = <<>>
    /\ panels = <<>>
    /\ files = <<>>
    /\ op \in PanelPayloads("convertResize")
    /\ fs = [q \in CommandPaths |-> Original(q)]
    /\ dirs = {}
    /\ phase = "idle"
    /\ launched = 0
    /\ task = <<>>
    /\ failures = <<>>
    /\ successes = <<>>
    /\ reports = <<>>
    /\ runs = 0
    /\ uri = None /\ uris = None /\ activeEditor = None
    /\ collected = None /\ picked = None
    /\ warnings = 0 /\ second = None

\* The commands, on any selection, and the batch of a simple command
NextCommands ==
    \/ \E kind \in {"convertResize", "generateFavicon"} :
          \E a \in CommandArgs : OpenPanel(kind, a[1], a[2])
    \/ \E target \in TargetFormat :
          \E a \in CommandArgs : RunSimple(target, a[1], a[2])
    \/ \E i \in Tasks : Launch(i)
    \/ AwaitAll
    \/ \E i \in Tasks : Decode(i)
    \/ \E i \in Tasks : Replace(i)
    \/ Report

SpecCommands == InitCommands /\ [][NextCommands]_vars

\* A convert-and-resize panel is open on a selection of supported files,
\* which exist except at most one.
InitHung ==
    /\ lastSelection \in { sel \in Selections : \A n \in DOMAIN sel : isSupportedImage(sel[n]) }
    /\ panels = <<[kind |-> "convertResize", files |-> lastSelection, state |-> "open"]>>
    /\ files = <<>>
    /\ op \in PanelPayloads("convertResize")
    /\ fs \in { [q \in Range(lastSelection) \ gone |-> Original(q)] :
                   gone \in {{}} \cup { {q} : q \in Range(lastSelection) } }
    /\ dirs = {}
    /\ phase = "idle"
    /\ launched = 0
    /\ task = <<>>
    /\ failures = <<>>
    /\ successes = <<>>
    /\ reports = <<>>
    /\ runs = 0
    /\ uri = None /\ uris = None /\ activeEditor = None
    /\ collected = None /\ picked = None
    /\ warnings = 0 /\ second = None

(***************************************************************************)
(* A second submit of a panel whose batch is in progress.  The handler has *)
(* no test of a batch in progress: it calls batch(lastSelection, ...)      *)
(* again, and this batch's tasks run along with the first one's, on the    *)
(* same filesystem.  second holds this batch: its files, its payload, its  *)
(* tasks and its failures.  The convert panel's handler is modelled; the   *)
(* favicon panel's has the same structure.                                 *)
(***************************************************************************)
\* convertFile(p, ...) up to its first await
StartedConvertFile(p) ==
    LET inputExt == toLowerCase(extname(p))
        t == [NewTask EXCEPT !.calls = 1]
    IN  IF inputExt \notin INPUT_FORMATS
        THEN Throw(t, UnsupportedFormat(inputExt))
        ELSE [t EXCEPT !.pc = "decoding"]

\* the failures pushed for the tasks 1..n of ts that have thrown, in order
RECURSIVE Thrown(_, _, _)
Thrown(fls, ts, n) ==
    IF n = 0 THEN <<>>
    ELSE LET fl == Thrown(fls, ts, n - 1)
         IN  IF ts[n].pc = "thrown"
             THEN Append(fl, [file |-> fls[n], error |-> ts[n].err[1]])
             ELSE fl

\* The message handler of panel k receives a submit while the batch of its
\* first submit is awaited: batch(lastSelection, ...) is called and runs up
\* to its await of Promise.all.
SubmitAgain(k, payload) ==
    /\ k \in DOMAIN panels
    /\ panels[k].kind = "convertResize"
    /\ panels[k].state = "submitted"
    /\ phase = "waiting"
    /\ second = None
    /\ payload \in PanelPayloads(panels[k].kind)
    /\ LET started == [i \in DOMAIN lastSelection |-> StartedConvertFile(lastSelection[i])]
       IN  second' = Some([panel |-> k, files |-> lastSelection, op |-> payload,
                           task |-> [i \in DOMAIN started |-> Callback(started[i])],
                           failures |-> Thrown(lastSelection, started, Len(lastSelection)),
                           phase |-> "waiting"])
    /\ UNCHANGED <<selVars, warnings, lastSelection, panels, files, op, fs, dirs, phase,
                   launched, task, failures, successes, reports, runs>>

\* task i of the second batch has reached t in this step
SecondStep(i, t) ==
    second' = Some([second[1] EXCEPT
                      !.task[i] = Callback(t),
                      !.failures = IF t.pc = "thrown"
                                   THEN Append(@, [file |-> second[1].files[i], error |-> t.err[1]])
                                   ELSE @])

\* pipeline.toBuffer() of the second batch's task i
SecondDecode(i) ==
    /\ second # None
    /\ second[1].phase = "waiting"
    /\ i \in DOMAIN second[1].task
    /\ second[1].task[i].pc = "decoding"
    /\ LET p == second[1].files[i]
           o == second[1].op
           t == second[1].task[i]
       IN  \/ /\ Exists(fs, p) /\ Decodable(fs[p])
              /\ SecondStep(i, [t EXCEPT !.pc = "decoded",
                                         !.buf = Some(Encode(fs[p], ConvertPipeline(p, o.target, o.opts, 82)))])
           \/ /\ Exists(fs, p)
              /\ SecondStep(i, Throw(t, DecodeError))
           \/ /\ ~Exists(fs, p)
              /\ SecondStep(i, Throw(t, MissingInput))
    /\ UNCHANGED <<selVars, warnings, lastSelection, panels, files, op, fs, dirs, phase,
                   launched, task, failures, successes, reports, runs>>

\* the second batch's convertFile after its toBuffer(): unlinkSync in a try
\* with an empty catch, then writeFileSync
SecondReplace(i) ==
    /\ second # None
    /\ second[1].phase = "waiting"
    /\ i \in DOMAIN second[1].task
    /\ second[1].task[i].pc = "decoded"
    /\ LET p == second[1].files[i]
           outPath == OutPath(p, second[1].op.target)
       IN  \E u \in UnlinkOutcomes(fs, p) :
             LET t == AfterUnlink(second[1].task[i], p, u)
             IN  \E w \in WriteOutcomes(u.fs, outPath, t.buf[1]) :
                    /\ fs' = w.fs
                    /\ SecondStep(i, AfterWrite(t, u.fs, outPath, w))
    /\ UNCHANGED <<selVars, warnings, lastSelection, panels, files, op, dirs, phase,
                   launched, task, failures, successes, reports, runs>>

\* the second batch's code after `await Promise.all(...)`, and its
\* handler's panel.dispose()
SecondReport ==
    /\ second # None
    /\ second[1].phase = "waiting"
    /\ \A i \in DOMAIN second[1].task : second[1].task[i].pc \in {"ok", "failed"}
    /\ second' = Some([second[1] EXCEPT !.phase = "done"])
    /\ reports' = Append(reports,
                    [ info    |-> Some([converted |-> Len(second[1].files) - Len(second[1].failures),
                                        of |-> Some(Len(second[1].files))]),
                      error   |-> None,
                      channel |-> IF Len(second[1].failures) > 0
                                  THEN Some(second[1].failures) ELSE None ])
    /\ panels' = [panels EXCEPT ![second[1].panel].state = "disposed"]
    /\ UNCHANGED <<selVars, warnings, lastSelection, files, op, fs, dirs, phase,
                   launched, task, failures, successes, runs>>

\* a convert panel is open on a selection of existing images
InitResubmit ==
    /\ lastSelection \in { sel \in Selections :
                              /\ sel # <<>>
                              /\ \A n \in DOMAIN sel : isSupportedImage(sel[n]) }
    /\ panels = <<[kind |-> "convertResize", files |-> lastSelection, state |-> "open"]>>
    /\ files = <<>>
    /\ op \in PanelPayloads("convertResize")
    /\ fs = [q \in Range(lastSelection) |-> Original(q)]
    /\ dirs = {}
    /\ phase = "idle"
    /\ launched = 0
    /\ task = <<>>
    /\ failures = <<>>
    /\ successes = <<>>
    /\ reports = <<>>
    /\ runs = 0
    /\ uri = None /\ uris = None /\ activeEditor = None
    /\ collected = None /\ picked = None
    /\ warnings = 0 /\ second = None

\* The panel's messages, the batch of its first submit and the batch of a
\* second one
NextResubmit ==
    \/ \E payload \in PanelPayloads("convertResize") : Submit(1, payload)
    \/ \E payload \in PanelPayloads("convertResize") : SubmitAgain(1, payload)
    \/ Close(1)
    \/ \E i \in Tasks : Launch(i)
    \/ AwaitAll
    \/ \E i \in Tasks : Decode(i)
    \/ \E i \in Tasks : Replace(i)
    \/ Report
    \/ \E i \in 1..MaxFiles : SecondDecode(i)
    \/ \E i \in 1..MaxFiles : SecondReplace(i)
    \/ SecondReport

SpecResubmit == InitResubmit /\ [][NextResubmit]_vars

\* the file on which the codec hangs
HangingFile == Path(<<"d">>, "a", "webp")

\* The panel's submit and its batch, in which the toBuffer() of one file
\* never settles: the codec hangs on it.
NextHung ==
    \/ \E payload \in ConvertOps : Submit(1, payload)
    \/ \E i \in Tasks : Launch(i)
    \/ AwaitAll
    \/ \E i \in { j \in Tasks : files[j] # HangingFile } : Decode(i)
    \/ \E i \in Tasks : Replace(i)
    \/ Report

\* the event loop delivers every completion that has arrived and runs every
\* continuation that is ready
SpecHung == InitHung /\ [][NextHung]_vars /\ WF_vars(NextHung)

(***************************************************************************)
(* Properties of the batch runner.                                         *)
(***************************************************************************)
\* the batch has returned to its caller
Reported == phase = "idle" /\ runs > 0

\* the runner of file i threw
Threw(i) == task[i].err # None

FailureEntries(fl, i) == Cardinality({ j \in DOMAIN fl : fl[j].file = files[i] })

InFlight(i) == task[i].pc \in {"decoding", "decoded", "unlinking", "writing"}

\* C1: the runner is invoked at most once per file at any time and, when the
\* batch returns, exactly once per file; each file then has exactly one
\* entry: a failure entry (its path, its error's message) if its runner
\* threw, a success otherwise, so that successes + failures = number of files
\* and no file is in both.
C1_OneEntryPerFile ==
    /\ \A i \in Tasks : task[i].calls <= 1 /\ FailureEntries(failures, i) <= 1
    /\ Reported =>
        /\ \A i \in Tasks : task[i].calls = 1
        /\ \A i \in Tasks : FailureEntries(failures, i) = IF Threw(i) THEN 1 ELSE 0
        /\ \A j \in DOMAIN failures :
              \E i \in Tasks :
                 Threw(i) /\ failures[j] = [file |-> files[i], error |-> task[i].err[1]]
        /\ Len(failures) + Cardinality({ i \in Tasks : ~Threw(i) }) = Len(files)
        /\ op.kind = "convertSingleFile" =>
              /\ Len(successes) = Cardinality({ i \in Tasks : ~Threw(i) })
              /\ \A j \in DOMAIN successes :
                    \E i \in Tasks : ~Threw(i) /\ successes[j] = Path(files[i].dir, files[i].base, op.target)

\* a batch of two files has returned, one file a success and one a failure
C1_Witness ==
    /\ Reported
    /\ Len(files) = 2
    /\ \E i, j \in Tasks : Threw(i) /\ ~Threw(j) /\ task[j].written = "ok"

\* C2: a runner's error becomes a failure entry of its own file and nothing
\* else: no error stays uncaught once the batch is suspended (the batch
\* never rejects), the step in which file i fails appends exactly i's entry
\* and leaves every task in flight as it was, and a task in flight can
\* always take its next step, whatever failed.
C2_FailureIsolated ==
    /\ [](phase # "mapping" => \A i \in Tasks : task[i].pc # "thrown")
    /\ [](\A j \in Tasks : (phase = "waiting" /\ InFlight(j)) =>
             ENABLED (Decode(j) \/ Replace(j) \/ UnlinkDone(j) \/ WriteDone(j) \/ FaviconWrite(j)))
    /\ [][\A i \in Tasks : (task[i].pc # "failed" /\ task'[i].pc = "failed") =>
            /\ phase' = "waiting"
            /\ FailureEntries(failures', i) = 1
            /\ \A j \in Tasks \ {i} :
                  /\ InFlight(j) => task'[j] = task[j]
                  /\ ~Threw(j) => FailureEntries(failures', j) = 0]_vars

\* one file has failed while another is still in flight
C2_Witness ==
    /\ phase = "waiting"
    /\ \E i, j \in Tasks : task[i].pc = "failed" /\ task[j].pc = "decoded"

\* C4: every file's task has been started before any task is waited on (a
\* task is past its first await, or settled, only when all are started),
\* and the report is emitted only when every task has settled.
C4_LaunchAllThenWaitAll ==
    /\ [](\A i \in Tasks : task[i].pc \notin {"new", "decoding", "thrown", "returned"} =>
             \A j \in Tasks : task[j].calls = 1)
    /\ [](Len(reports) = runs => \A i \in Tasks : task[i].pc \in {"new", "ok", "failed"})
    /\ [][reports' # reports => \A i \in Tasks : task[i].pc \in {"ok", "failed"}]_vars

\* the report of a batch in which the file that failed first was not the
\* last to settle
C4_Witness ==
    /\ Reported
    /\ Len(files) = 2
    /\ Len(failures) = 1
    /\ \E i \in Tasks : task[i].pc = "ok" /\ task[i].unlinked = "ok"
    /\ failures[1].error = MissingInput

(***************************************************************************)
(* Properties of the per-file operations.                                  *)
(***************************************************************************)
\* the paths task i has deleted or written
Touched(i) == task[i].deleted \cup task[i].wrote

\* C3: in a batch of convertFile or generateFaviconSet tasks no two tasks
\* delete or write the same path, and no task deletes or writes the source
\* path of another.
C3_NoSharedPath ==
    op.kind \in {"convertFile", "generateFaviconSet"} =>
        \A i, j \in Tasks :
            i # j => Touched(i) \cap (Touched(j) \cup {files[j]}) = {}

Converting == op.kind \in {"convertFile", "convertSingleFile"}

\* dir/base.t for the source dir/base.ext of task i
OutputOf(i) == Path(files[i].dir, files[i].base, op.target)

\* task i's conversion succeeds in this step
Succeeds(i) == task[i].pc # "ok" /\ task'[i].pc = "ok"

\* C5 as claimed: when the conversion of dir/base.ext to t # ext succeeds,
\* dir/base.t exists and holds the encoded bytes and dir/base.ext does not
\* exist.
C5_SourceGone ==
    [][\A i \in Tasks : (Converting /\ Succeeds(i) /\ files[i].ext # op.target) =>
            /\ Exists(fs', OutputOf(i))
            /\ fs'[OutputOf(i)] = task[i].buf[1]
            /\ ~Exists(fs', files[i])]_vars

\* C5 amended: when the conversion of dir/base.ext to t # ext succeeds,
\* dir/base.t exists and holds the encoded bytes (encoded for t); dir/base.ext
\* does not exist if its delete succeeded, and is left as it was if its
\* delete failed.
C5_SourceGoneIfDeleted ==
    [][\A i \in Tasks : (Converting /\ Succeeds(i) /\ files[i].ext # op.target) =>
            /\ Exists(fs', OutputOf(i))
            /\ fs'[OutputOf(i)] = task[i].buf[1]
            /\ task[i].buf[1].pipe.format = op.target
            /\ task'[i].unlinked = "ok" => ~Exists(fs', files[i])
            /\ (task'[i].unlinked = "failed" /\ Exists(fs, files[i])) =>
                  Exists(fs', files[i]) /\ fs'[files[i]] = fs[files[i]]]_vars

\* a conversion to another format has succeeded, its source deleted and its
\* output in place
C5_Witness ==
    /\ Converting
    /\ \E i \in Tasks :
          /\ task[i].pc = "ok" /\ task[i].unlinked = "ok"
          /\ files[i].ext # op.target
          /\ ~Exists(fs, files[i]) /\ Exists(fs, OutputOf(i))
          /\ fs[OutputOf(i)].img = files[i]

\* task i's write fails in this step
WriteFails(i) == task[i].written = "none" /\ task'[i].written = "failed"

\* what the output path of task i holds right before its write, as a set:
\* convertFile deletes and writes in one step, convertSingleFile writes in a
\* step of its own
BeforeWrite(i) ==
    IF op.kind = "convertFile" /\ task'[i].unlinked = "ok" /\ OutputOf(i) = files[i]
    THEN {}
    ELSE IF Exists(fs, OutputOf(i)) THEN {fs[OutputOf(i)]} ELSE {}

\* C6 as claimed: a failed write makes the conversion fail with the write's
\* error, recorded as the file's failure; after a successful delete neither
\* the source nor the output file is present.
C6_NeitherPresent ==
    [][\A i \in Tasks : (Converting /\ WriteFails(i)) =>
            /\ task'[i].pc = "failed"
            /\ failures' = Append(failures, [file |-> files[i], error |-> WriteError])
            /\ task'[i].unlinked = "ok" =>
                  ~Exists(fs', files[i]) /\ ~Exists(fs', OutputOf(i))]_vars

\* C6 amended: a failed write makes the conversion fail with the write's
\* error, recorded as the file's failure; after a successful delete the
\* delete is not undone and the new bytes are not in place: the source path
\* does not exist unless it is the output path, and the output path holds
\* what it held right before the write (nothing, if no file was there) or a
\* truncated file.
C6_NoRollback ==
    [][\A i \in Tasks : (Converting /\ WriteFails(i)) =>
            /\ task'[i].pc = "failed"
            /\ failures' = Append(failures, [file |-> files[i], error |-> WriteError])
            /\ task'[i].unlinked = "ok" =>
                  /\ files[i] # OutputOf(i) => ~Exists(fs', files[i])
                  /\ \/ ~Exists(fs', OutputOf(i)) /\ BeforeWrite(i) = {}
                     \/ Exists(fs', OutputOf(i)) /\ BeforeWrite(i) = {fs'[OutputOf(i)]}
                     \/ Exists(fs', OutputOf(i))
                          /\ fs'[OutputOf(i)] = Partial(task[i].buf[1])]_vars

\* a conversion has failed at its write after deleting its source, and
\* neither the source nor the output path holds a file
C6_Witness ==
    /\ Converting
    /\ \E i \in Tasks :
          /\ task[i].pc = "failed" /\ task[i].err = Some(WriteError)
          /\ task[i].unlinked = "ok"
          /\ ~Exists(fs, files[i]) /\ ~Exists(fs, OutputOf(i))

\* task i's delete fails in this step
UnlinkFails(i) == task[i].unlinked = "none" /\ task'[i].unlinked = "failed"

\* C7: a failed delete does not make the conversion fail and is reported
\* nowhere: the write is still attempted (convertFile in the same step,
\* convertSingleFile by awaiting it next), no failure entry is recorded for
\* the delete, and when the write succeeds the output holds the encoded
\* bytes and the file counts as a success.
C7_DeleteFailureSwallowed ==
    /\ [][\A i \in Tasks : (Converting /\ UnlinkFails(i)) =>
            /\ op.kind = "convertFile" => task'[i].written # "none"
            /\ op.kind = "convertSingleFile" =>
                  task'[i].pc = "writing" /\ failures' = failures
            /\ task'[i].written # "failed" => failures' = failures]_vars
    /\ [][\A i \in Tasks : (Converting /\ Succeeds(i) /\ task'[i].unlinked = "failed") =>
            /\ Exists(fs', OutputOf(i))
            /\ fs'[OutputOf(i)] = task[i].buf[1]
            /\ failures' = failures]_vars
    /\ [](\A i \in Tasks : (Converting /\ task[i].unlinked = "failed") =>
            /\ task[i].written = "ok" => task[i].pc = "ok" /\ ~Threw(i)
            /\ Threw(i) => task[i].err = Some(WriteError) /\ task[i].written = "failed"
            /\ task[i].written = "none" => task[i].pc = "writing")

\* a file that exists could not be deleted, and its conversion is a success
\* of a batch that has returned
C7_Witness ==
    /\ Converting
    /\ Reported
    /\ \E i \in Tasks :
          /\ task[i].pc = "ok" /\ task[i].unlinked = "failed"
          /\ Exists(fs, files[i]) /\ files[i] # OutputOf(i)
          /\ FailureEntries(failures, i) = 0

\* C8: a per-file function called on a path whose lowercase extension is
\* not a supported input format has failed with the unsupported-format
\* error naming that extension, has produced no bytes and has deleted and
\* written nothing.
C8_UnsupportedRejectedFirst ==
    \A i \in Tasks :
        (task[i].calls = 1 /\ toLowerCase(files[i].ext) \notin INPUT_FORMATS) =>
            /\ task[i].err = Some(UnsupportedFormat(toLowerCase(files[i].ext)))
            /\ task[i].buf = None
            /\ Touched(i) = {}

\* C10: the report of a batch that has returned says N of M, M the number of
\* files and N the number of files whose runner did not throw, and has an
\* error listing exactly when a file failed: one line per failed file, with
\* its path and its error's message.
C10_SummaryAndListing ==
    Reported =>
        LET r == reports[Len(reports)]
            failed == { i \in Tasks : Threw(i) }
        IN  /\ r.info = Some([converted |-> Len(files) - Cardinality(failed),
                              of |-> Some(Len(files))])
            /\ (r.channel # None) <=> (failed # {})
            /\ r.channel # None =>
                  /\ Len(r.channel[1]) = Cardinality(failed)
                  /\ \A i \in failed :
                        \E j \in DOMAIN r.channel[1] :
                            r.channel[1][j] = [file |-> files[i], error |-> task[i].err[1]]

\* the decode of task i's source failed
DecodeFailed(i) == task[i].err \in {Some(DecodeError), Some(MissingInput)}

\* task i has its encoded bytes, or had them when its write failed
HasDecoded(i) ==
    \/ task[i].pc \in {"decoded", "unlinking", "writing", "returned", "ok"}
    \/ task[i].err = Some(WriteError)

\* C18: a conversion deletes and writes only once its decode has produced
\* the bytes: a task that has attempted its delete or its write, or changed
\* a path, has decoded, and the step that attempts the delete starts with
\* the bytes in memory; a task whose decode failed has deleted and written
\* nothing, and its source, unless it was missing already, still exists.
C18_DecodeBeforeDelete ==
    /\ [](Converting =>
            \A i \in Tasks :
                /\ (task[i].unlinked # "none" \/ task[i].written # "none" \/ Touched(i) # {})
                      => HasDecoded(i)
                /\ DecodeFailed(i) =>
                      task[i].unlinked = "none" /\ task[i].written = "none" /\ Touched(i) = {}
                /\ task[i].err = Some(DecodeError) => Exists(fs, files[i]))
    /\ [][Converting =>
            \A i \in Tasks :
                /\ (task[i].unlinked = "none" /\ task'[i].unlinked # "none") =>
                      task[i].buf # None /\ task[i].pc \in {"decoded", "unlinking"}
                /\ (~DecodeFailed(i) /\ DecodeFailed(i)') => fs' = fs]_vars

\* the decode of a file that is there has failed: the file is as it was and
\* nothing was deleted or written for it
C18_Witness ==
    /\ Converting
    /\ \E i \in Tasks :
          /\ task[i].pc = "failed" /\ task[i].err = Some(DecodeError)
          /\ Exists(fs, files[i]) /\ fs[files[i]] = Original(files[i])
          /\ Touched(i) = {}

\* C20: when the output path is the source path (the target is the source's
\* extension), the step in which the conversion succeeds leaves that path
\* holding the newly encoded bytes, whether the delete before the write
\* succeeded or failed.
C20_SamePathKept ==
    [][\A i \in Tasks : (Converting /\ Succeeds(i) /\ OutputOf(i) = files[i]) =>
            /\ Exists(fs', files[i])
            /\ fs'[files[i]] = task[i].buf[1]
            /\ fs'[files[i]].pipe.format = op.target
            /\ task'[i].written = "ok"]_vars

\* a png converted to png has been deleted and written anew
C20_Witness ==
    /\ Converting
    /\ \E i \in Tasks :
          /\ OutputOf(i) = files[i]
          /\ task[i].pc = "ok" /\ task[i].unlinked = "ok" /\ task[i].deleted = {files[i]}
          /\ Exists(fs, files[i])
          /\ fs[files[i]] = Encode(Original(files[i]), fs[files[i]].pipe)
          /\ fs[files[i]].pipe.format = op.target

(***************************************************************************)
(* Properties of repeated invocations.                                     *)
(***************************************************************************)
\* the first batch listed file i among its failures
FailedInFirstRun(i) ==
    /\ reports[1].channel # None
    /\ \E j \in DOMAIN reports[1].channel[1] : reports[1].channel[1][j].file = files[i]

SecondRunReported == Reported /\ runs = 2

\* a write failed in the first batch
WriteFailedInFirstRun ==
    /\ reports[1].channel # None
    /\ \E j \in DOMAIN reports[1].channel[1] : reports[1].channel[1][j].error = WriteError

\* C9 as claimed: after the second of two batches on the same files and
\* target, every file the first batch converted has been written again to
\* the same output path, which holds a file (setting aside the second
\* batch's tasks that a codec or write error stopped).
C9_SecondRunOverwrites ==
    SecondRunReported =>
        \A i \in Tasks :
            (~FailedInFirstRun(i) /\ task[i].err \notin {Some(DecodeError), Some(WriteError)}) =>
                /\ task[i].wrote = {OutputOf(i)}
                /\ Exists(fs, OutputOf(i))

\* C9 amended: in both batches a task writes no path but dir/base.t and
\* deletes no path but its source; a task of the second batch whose source
\* is gone fails with the missing-input error having deleted and written
\* nothing, and every other task has either written its output or failed;
\* after the second batch the output path of every file the first batch
\* converted holds a file, unless a write failed in one of the two batches.
C9_SameOutputKept ==
    /\ \A i \in Tasks : task[i].wrote \subseteq {OutputOf(i)} /\ task[i].deleted \subseteq {files[i]}
    /\ SecondRunReported =>
        /\ \A i \in Tasks :
              /\ task[i].err = Some(MissingInput) => Touched(i) = {}
              /\ task[i].err # Some(MissingInput) => Threw(i) \/ task[i].written = "ok"
        /\ (~WriteFailedInFirstRun /\ \A j \in Tasks : task[j].written # "failed") =>
              \A i \in Tasks : ~FailedInFirstRun(i) => Exists(fs, OutputOf(i))

\* the second batch has returned: a file the first batch converted failed in
\* it for want of its source, and the first batch's output is still there
C9_Witness ==
    /\ SecondRunReported
    /\ \E i \in Tasks :
          /\ ~FailedInFirstRun(i)
          /\ task[i].err = Some(MissingInput)
          /\ Exists(fs, OutputOf(i))
          /\ fs[OutputOf(i)].img = files[i]

(***************************************************************************)
(* Properties of the favicon generator.                                    *)
(***************************************************************************)
\* the files a favicon generation for task i with the requested sizes is to
\* write
FaviconFiles(i) ==
    { Path(Append(files[i].dir, "favicons"),
           "favicon-" \o ToString(op.sizes[j]) \o "x" \o ToString(op.sizes[j]), "png") :
        j \in DOMAIN op.sizes }
    \cup (IF 16 \in Range(op.sizes)
          THEN {Path(Append(files[i].dir, "favicons"), "favicon", "ico")}
          ELSE {})

\* C11: a favicon generation writes no file but favicons/favicon-SxS.png for
\* the requested sizes S and favicons/favicon.ico when 16 is requested, and
\* one that has succeeded has written exactly these files, which exist; it
\* has deleted nothing.
C11_FaviconFilesExactly ==
    op.kind = "generateFaviconSet" =>
        \A i \in Tasks :
            /\ task[i].wrote \subseteq FaviconFiles(i)
            /\ task[i].deleted = {}
            /\ task[i].pc = "ok" =>
                  /\ task[i].wrote = FaviconFiles(i)
                  /\ \A f \in FaviconFiles(i) : Exists(fs, f)

\* a generation with the sizes 32 and 16 and the format ico has succeeded:
\* three files are written
C11_Witness ==
    /\ op.kind = "generateFaviconSet" /\ op.sizes = <<32, 16>> /\ op.format = "ico"
    /\ \E i \in Tasks :
          /\ task[i].pc = "ok"
          /\ Cardinality(task[i].wrote) = 3
          /\ \A f \in task[i].wrote : Exists(fs, f) /\ fs[f].img = files[i]

\* C12: no step of a favicon generation changes its source path: the file
\* exists after the step if and only if it existed before, with the same
\* bytes; the generation deletes nothing and never writes its source,
\* whether it succeeds or fails.
C12_FaviconSourceUntouched ==
    /\ [](op.kind = "generateFaviconSet" =>
             \A i \in Tasks : task[i].deleted = {} /\ files[i] \notin task[i].wrote)
    /\ [][\A i \in Tasks : (op.kind = "generateFaviconSet" /\ task'[i] # task[i]) =>
            /\ Exists(fs', files[i]) <=> Exists(fs, files[i])
            /\ Exists(fs, files[i]) => fs'[files[i]] = fs[files[i]]]_vars

\* one generation has succeeded and one has failed at a write, having
\* written before; the sources of both are as they were
C12_Witness ==
    /\ op.kind = "generateFaviconSet"
    /\ \E i, j \in Tasks :
          /\ task[i].pc = "ok" /\ task[i].wrote # {}
          /\ task[j].pc = "failed" /\ task[j].err = Some(WriteError) /\ task[j].k = 2
          /\ Exists(fs, files[i]) /\ fs[files[i]] = Original(files[i])
          /\ Exists(fs, files[j]) /\ fs[files[j]] = Original(files[j])

(***************************************************************************)
(* Properties of the selection resolvers and of the format check.          *)
(***************************************************************************)
\* the supported input extensions, as the contract lists them
SupportedExtensions ==
    {"png", "jpg", "jpeg", "webp", "gif", "tiff", "bmp", "avif", "heic", "heif", "svg", "dng"}

\* the path's extension is a supported one, whatever its case
Readable(p) == toLowerCase(p.ext) \in SupportedExtensions

\* the selection as the contract defines it: the multi-selection when it is
\* not empty, the clicked resource otherwise, nothing when there is neither
Selected ==
    IF uris # None /\ Len(uris[1]) > 0 THEN uris[1]
    ELSE IF uri # None THEN <<uri[1]>> ELSE <<>>

\* everything pickSelectedResources is given
Merged ==
    (IF uri # None THEN <<uri[1]>> ELSE <<>>)
        \o (IF uris # None THEN uris[1] ELSE <<>>)
        \o (IF activeEditor # None THEN <<activeEditor[1]>> ELSE <<>>)

\* C13: a resolver's result holds the readable paths of the selection (the
\* multi-selection when not empty, else the clicked resource) and, when a
\* selection is supplied, no path of any other origin; when none is supplied
\* the result is empty (or, the fallback the contract allows, the active
\* document alone).
C13_ExplicitSelectionOnly ==
    \A r \in {collected, picked} :
        r # None =>
            IF Selected # <<>>
            THEN Range(r[1]) = { q \in Range(Selected) : Readable(q) }
            ELSE r[1] = <<>> \/ (activeEditor # None /\ r[1] = <<activeEditor[1]>>)

FirstIndex(arr, q) == CHOOSE n \in DOMAIN arr : arr[n] = q /\ \A m \in 1..(n - 1) : arr[m] # q

\* out is input without its unreadable paths and without repetitions, in
\* the order of first occurrence
WellResolved(input, out) ==
    /\ \A a, b \in DOMAIN out : a # b => out[a] # out[b]
    /\ \A a \in DOMAIN out : Readable(out[a])
    /\ Range(out) = { q \in Range(input) : Readable(q) }
    /\ \A a, b \in DOMAIN out : a < b => FirstIndex(input, out[a]) < FirstIndex(input, out[b])

\* C14: the result of a resolver has no path twice, holds only readable
\* paths, holds every readable path it was given, and lists the paths in
\* the order of their first occurrence in what it was given
\* (collectSelection: the selection; pickSelectedResources: the clicked
\* resource, the multi-selection and the active document, in this order).
C14_DistinctReadableInOrder ==
    /\ collected # None => WellResolved(Selected, collected[1])
    /\ picked # None => WellResolved(Merged, picked[1])

\* both resolvers have run on a multi-selection that repeats the clicked
\* resource after an upper-case extension and an unreadable path
C14_Witness ==
    /\ uri = Some(Path(<<"d">>, "a", "png"))
    /\ uris = Some(<<Path(<<"d">>, "c", "DNG"), Path(<<"d">>, "a", "png")>>)
    /\ activeEditor = Some(Path(<<"d">>, "a", "TXT"))
    /\ collected = Some(<<Path(<<"d">>, "c", "DNG"), Path(<<"d">>, "a", "png")>>)
    /\ picked = Some(<<Path(<<"d">>, "a", "png"), Path(<<"d">>, "c", "DNG")>>)

\* extensions in and out of the supported set, in lower and in upper case,
\* and the empty extension of a name without one
Extensions == SupportedExtensions \cup {"PNG", "SVG", "DNG", "Jpg", "TXT", "txt", "ico", "pdf", ""}

Requested == IF op.kind = "generateFaviconSet" THEN op.quality ELSE op.opts.quality

\* q brought into 1..100
InRange(q) == IF q < 1 THEN 1 ELSE IF q > 100 THEN 100 ELSE q

\* the pipelines handed to the encoder so far: those of the buffers in
\* memory and of the files encoded and written
Encodings ==
    { task[i].buf[1].pipe : i \in { j \in Tasks : task[j].buf # None } }
        \cup { fs[f].pipe : f \in { g \in DOMAIN fs : fs[g].pipe.format \notin {"source", "partial"} } }

\* C15: the quality of every encoding lies in 1..100, and when the caller
\* gave a quality q it is min(100, max(1, q)): 1 for 0, 100 for 150; in
\* convertFile, convertSingleFile and generateFaviconSet alike.
C15_QualityClamped ==
    \A e \in Encodings :
        /\ e.quality \in 1..100
        /\ Requested # None => e.quality = InRange(Requested[1])
        /\ Requested = Some(0) => e.quality = 1
        /\ Requested = Some(150) => e.quality = 100

\* a conversion asked for the quality 0 has written a file encoded at 1
C15_Witness ==
    /\ Converting
    /\ Requested = Some(0)
    /\ \E i \in Tasks :
          /\ task[i].pc = "ok"
          /\ Exists(fs, OutputOf(i))
          /\ fs[OutputOf(i)].pipe.quality = 1

\* C16: the pipeline of a conversion has the flatten onto white if and only
\* if the target is jpg and the source's extension is svg in any case; for
\* the targets png and webp it never has it.
C16_FlattenOnlyJpgFromSvg ==
    Converting =>
        \A i \in Tasks :
            task[i].buf # None =>
                /\ task[i].buf[1].pipe.flatten
                      <=> (op.target = "jpg" /\ files[i].ext \in {"svg", "SVG"})
                /\ op.target \in {"png", "webp"} => ~task[i].buf[1].pipe.flatten

\* an .SVG converted to jpg has been written flattened
C16_Witness ==
    /\ Converting /\ op.target = "jpg"
    /\ \E i \in Tasks :
          /\ files[i].ext = "SVG"
          /\ task[i].pc = "ok"
          /\ Exists(fs, OutputOf(i))
          /\ fs[OutputOf(i)].pipe.flatten

(***************************************************************************)
(* Properties of the panels.                                               *)
(***************************************************************************)
\* C19: the batch a panel's submit has started runs over the selection that
\* was resolved when that panel was opened, whatever panels were opened
\* after it.
C19_SubmitUsesOwnSelection ==
    \A k \in DOMAIN panels : panels[k].state = "submitted" => files = panels[k].files

\* task i's generation is past the creation of its favicons directory
PastMkdir(i) ==
    /\ task[i].calls = 1
    /\ task[i].err \notin {Some(MkdirError), Some(UnsupportedFormat(toLowerCase(files[i].ext)))}

\* C22: in a batch of favicon generations the creation of a favicons
\* directory fails only when the directory is absent (never because another
\* task of the batch, or anyone, has created it), a task past that step has
\* its directory, and directories stay.
C22_MkdirIdempotent ==
    /\ [](op.kind = "generateFaviconSet" =>
            \A i \in Tasks : PastMkdir(i) => Append(files[i].dir, "favicons") \in dirs)
    /\ [][op.kind = "generateFaviconSet" =>
            \A i \in Tasks :
                (task[i].err = None /\ task'[i].err = Some(MkdirError)) =>
                    Append(files[i].dir, "favicons") \notin dirs]_vars
    /\ [][dirs \subseteq dirs']_vars

\* two generations for files of one directory are past the creation of its
\* favicons directory, which the batch has created
C22_Witness ==
    /\ op.kind = "generateFaviconSet"
    /\ \E i, j \in Tasks :
          /\ i # j /\ files[i].dir = files[j].dir
          /\ PastMkdir(i) /\ PastMkdir(j)
          /\ Append(files[i].dir, "favicons") \in dirs
          /\ \A f \in DOMAIN fs : f.dir # Append(files[i].dir, "favicons")

\* the file at f holds bytes some pipeline encoded (the img of the bytes is
\* the selected image they were rendered from)
Encoded(f) == Exists(fs, f) /\ fs[f].pipe.format \notin {"source", "partial"}

\* the image is an svg, whatever the case of its extension
Vector(q) == q.ext \in {"svg", "SVG"}

\* the per-size favicon files of task i, and its favicon.ico
PerSizeFiles(i) ==
    { Path(Append(files[i].dir, "favicons"),
           "favicon-" \o ToString(op.sizes[j]) \o "x" \o ToString(op.sizes[j]), "png") :
        j \in DOMAIN op.sizes }

IcoFile(i) == Path(Append(files[i].dir, "favicons"), "favicon", "ico")

\* C23: a per-size rendition of a favicon generation (the bytes in memory,
\* and those written to favicon-SxS.png) has the flatten onto white if and
\* only if the requested format is ico and the source is an svg; with the
\* format png none has it.
C23_PerSizeFlattenOnlyIcoFromSvg ==
    op.kind = "generateFaviconSet" =>
        \A i \in Tasks :
            /\ (task[i].buf # None /\ task[i].k \in 1..Len(op.sizes)) =>
                  (task[i].buf[1].pipe.flatten <=> (op.format = "ico" /\ Vector(files[i])))
            /\ \A f \in PerSizeFiles(i) :
                  (Encoded(f) /\ fs[f].img = files[i]) =>
                      /\ fs[f].pipe.flatten <=> (op.format = "ico" /\ Vector(files[i]))
                      /\ op.format = "png" => ~fs[f].pipe.flatten

\* an svg's per-size rendition for the format ico has been written flattened
C23_Witness ==
    /\ op.kind = "generateFaviconSet" /\ op.format = "ico"
    /\ \E i \in Tasks :
          /\ Vector(files[i])
          /\ \E f \in PerSizeFiles(i) :
                Encoded(f) /\ fs[f].img = files[i] /\ fs[f].pipe.flatten

\* C24: the favicon.ico rendition (the bytes in memory, and those written)
\* has the flatten onto white if and only if the source is an svg, whatever
\* the requested format; so for an svg and the format png the favicon.ico is
\* flattened and the 16x16 file is not.
C24_IcoFlattenedFromSvg ==
    op.kind = "generateFaviconSet" =>
        \A i \in Tasks :
            /\ (task[i].buf # None /\ task[i].k = Len(op.sizes) + 1) =>
                  (task[i].buf[1].pipe.flatten <=> Vector(files[i]))
            /\ (Encoded(IcoFile(i)) /\ fs[IcoFile(i)].img = files[i]) =>
                  (fs[IcoFile(i)].pipe.flatten <=> Vector(files[i]))
            /\ (op.format = "png" /\ task[i].pc = "ok" /\ Vector(files[i])
                    /\ Encoded(IcoFile(i)) /\ fs[IcoFile(i)].img = files[i]) =>
                  \A f \in PerSizeFiles(i) :
                      (Encoded(f) /\ fs[f].img = files[i]) => ~fs[f].pipe.flatten

\* an svg's favicons for the size 16 and the format png are written: the
\* 16x16 file is not flattened, the favicon.ico is
C24_Witness ==
    /\ op.kind = "generateFaviconSet" /\ op.format = "png" /\ op.sizes = <<16>>
    /\ \E i \in Tasks :
          /\ Vector(files[i]) /\ task[i].pc = "ok"
          /\ Encoded(IcoFile(i)) /\ fs[IcoFile(i)].img = files[i] /\ fs[IcoFile(i)].pipe.flatten
          /\ \A f \in PerSizeFiles(i) :
                Encoded(f) /\ fs[f].img = files[i] /\ ~fs[f].pipe.flatten

\* task i's generation failed while it produced its k-th requested size
FailedAtSize(i) ==
    /\ op.kind = "generateFaviconSet"
    /\ task[i].pc = "failed"
    /\ task[i].k \in 1..Len(op.sizes)

\* the file of task i's j-th requested size
SizeFile(i, j) == FaviconPath(files[i], op.sizes[j])

\* what a failure at the k-th size leaves, but for the file of size k
LeftByFailure(i) ==
    /\ \A j \in 1..(task[i].k - 1) :
          SizeFile(i, j) \in task[i].wrote /\ Exists(fs, SizeFile(i, j))
    /\ FaviconIcoPath(files[i]) \notin task[i].wrote
    /\ \A j \in (task[i].k + 1)..Len(op.sizes) : SizeFile(i, j) \notin task[i].wrote
    /\ FaviconDir(files[i]) \in dirs
    /\ Cardinality({n \in DOMAIN failures : failures[n].file = files[i]}) = 1

\* C25 as stated: when favicon generation fails while producing the k-th
\* requested size, the files of the sizes before k remain written, the run
\* has written no file for size k or later and no favicon.ico, the favicons
\* directory remains, and the source is recorded exactly once as a failure.
C25_NothingAtFailedSize ==
    \A i \in Tasks :
        FailedAtSize(i) => (LeftByFailure(i) /\ SizeFile(i, task[i].k) \notin task[i].wrote)

\* C25: when favicon generation fails while producing the k-th requested
\* size, the files of the sizes before k remain written, the run has written
\* no file for a later size and no favicon.ico, and for size k nothing but
\* the truncated file a failing write leaves; the favicons directory
\* remains, and the source is recorded exactly once as a failure.
C25_NoCleanup ==
    \A i \in Tasks :
        FailedAtSize(i) =>
            /\ LeftByFailure(i)
            /\ SizeFile(i, task[i].k) \in task[i].wrote =>
                  /\ task[i].err = Some(WriteError)
                  /\ task[i].written = "failed"

\* a generation of the sizes 32 and 16 has failed at the second one, with
\* the first one's file written
C25_Witness ==
    /\ op.kind = "generateFaviconSet" /\ op.sizes = <<32, 16>>
    /\ \E i \in Tasks :
          /\ FailedAtSize(i) /\ task[i].k = 2
          /\ task[i].wrote = {SizeFile(i, 1)}
          /\ Encoded(SizeFile(i, 1))
          /\ failures # <<>>

(***************************************************************************)
(* Properties of a batch with a task that never settles.                   *)
(***************************************************************************)
\* the toBuffer() of task i is pending for ever
Hung(i) == files[i] = HangingFile /\ task[i].pc = "decoding"

\* C21: while one file's decode hangs, every other task in flight can take
\* its next step and does settle, a task that succeeds having attempted its
\* delete and done its write; no report is shown and the panel is not
\* disposed.
C21_HungTaskBlocksOnlyReport ==
    /\ []((\E i \in Tasks : Hung(i)) => reports = <<>> /\ panels[1].state = "submitted")
    /\ [](\A i \in Tasks : \A j \in Tasks \ {i} :
            (Hung(i) /\ phase = "waiting" /\ InFlight(j)) => ENABLED (Decode(j) \/ Replace(j)))
    /\ [](\A j \in Tasks :
            task[j].pc = "ok" =>
                /\ task[j].unlinked # "none" /\ task[j].written = "ok"
                /\ task[j].wrote = {OutputOf(j)})
    /\ (phase = "waiting" /\ \E i \in Tasks : Hung(i))
          ~> (\E i \in Tasks : Hung(i) /\ \A j \in Tasks \ {i} : Settled(j))

\* one file's decode hangs, the other file is converted: its source is
\* deleted and its output written; nothing is reported and the panel stays
C21_Witness ==
    /\ Len(files) = 2
    /\ \E i, j \in Tasks :
          /\ Hung(i)
          /\ task[j].pc = "ok" /\ task[j].unlinked = "ok"
          /\ ~Exists(fs, files[j]) /\ Exists(fs, OutputOf(j))
    /\ reports = <<>>
    /\ panels[1].state = "submitted"

(***************************************************************************)
(* Properties of the commands.                                             *)
(***************************************************************************)
\* this step is a command invoked on arguments that resolve to no image
CommandOnNothing ==
    \E a \in CommandArgs :
        /\ collectSelection(a[1], a[2]) = <<>>
        /\ \/ \E kind \in {"convertResize", "generateFavicon"} : OpenPanel(kind, a[1], a[2])
           \/ \E target \in TargetFormat : RunSimple(target, a[1], a[2])

\* C26: a command (convert to webp, jpg or png, convert-and-resize,
\* generate-favicon) whose resolved selection is empty shows the warning and
\* does nothing else: no batch is started, no panel created, no file read,
\* deleted or written, and lastSelection is as before.
C26_EmptySelectionOnlyWarns ==
    [][CommandOnNothing =>
          /\ warnings' = warnings + 1
          /\ UNCHANGED <<lastSelection, panels, fs, dirs, files, op, phase, launched, task,
                         failures, successes, reports, runs, second>>]_vars

\* a warning has been shown; a selection is retained for an open panel and
\* a simple command's batch is in progress
C26_Witness ==
    /\ warnings > 0
    /\ lastSelection # <<>>
    /\ \E k \in DOMAIN panels : panels[k].state = "open"
    /\ phase = "waiting"

\* the batches in progress that panel k's handler has started
BatchesInProgress(k) ==
    (IF panels[k].state = "submitted" /\ phase \in {"mapping", "waiting"} THEN 1 ELSE 0)
  + (IF second # None /\ second[1].panel = k /\ second[1].phase = "waiting" THEN 1 ELSE 0)

\* C27: a panel has at most one batch in progress (a submit delivered while
\* a batch of the panel is in progress starts no batch), and a close starts
\* no batch.
C27_OneBatchPerPanel ==
    /\ [](\A k \in DOMAIN panels : BatchesInProgress(k) <= 1)
    /\ [][(\E k \in DOMAIN panels : Close(k)) =>
             UNCHANGED <<files, op, phase, launched, task, runs, second>>]_vars

(***************************************************************************)
(* Properties of the resize options.                                       *)
(***************************************************************************)
\* the resize step the conversion pipeline requests for the given box
InsideBox == [width |-> op.opts.maxWidth, height |-> op.opts.maxHeight,
              fit |-> "inside", withoutEnlargement |-> TRUE]

\* the resize step of every pipeline built so far is InsideBox if wanted,
\* and none otherwise
ResizeIff(wanted) ==
    Converting =>
        \A i \in Tasks :
            task[i].buf # None =>
                task[i].buf[1].pipe.resize = (IF wanted THEN InsideBox ELSE NoResize)

\* C28 as stated: the pipeline requests the resize (inside the box, no
\* enlargement, the given width and height) if and only if a maxWidth or a
\* maxHeight is supplied.
C28_ResizeIffSupplied ==
    ResizeIff(op.opts.maxWidth # None \/ op.opts.maxHeight # None)

\* C28: the pipeline requests the resize (inside the box, no enlargement,
\* the given width and height) if and only if a maxWidth or a maxHeight
\* other than 0 is supplied; with neither supplied, or 0 for each supplied
\* one, it requests none.
C28_ResizeIffNonZero ==
    ResizeIff((op.opts.maxWidth # None /\ op.opts.maxWidth[1] # 0)
                \/ (op.opts.maxHeight # None /\ op.opts.maxHeight[1] # 0))

\* a conversion given a maxHeight alone has written a file resized inside
\* the box
C28_Witness ==
    /\ Converting
    /\ op.opts.maxWidth = None /\ op.opts.maxHeight = Some(2)
    /\ \E i \in Tasks :
          /\ task[i].pc = "ok"
          /\ Exists(fs, OutputOf(i))
          /\ fs[OutputOf(i)].pipe.resize = InsideBox

====
